---------------------------- MODULE Spec2Model ----------------------------
(***************************************************************************)
(* Model of MigrationTool.migrate (src/app.py): a generator that redirects *)
(* the process-wide stdout/stderr into a queue, runs run_migration on a    *)
(* background thread, polls the queue through update_output and yields the *)
(* reconciled log, then yields a final status carrying the verdict.        *)
(*                                                                         *)
(* Text is a sequence of characters; a character is a one-character        *)
(* string.  A fixed run of ordinary characters of a message literal of the *)
(* source is written as one symbol in angle brackets ("<dl-start>"): such  *)
(* a symbol is not whitespace, not a digit, not ESC and none of % | [ ].   *)
(***************************************************************************)
EXTENDS Naturals, Integers, Sequences, FiniteSets, TLC

\* ------------------------------------------------------------------------
\* Text helpers (Python str operations used by the source)
\* ------------------------------------------------------------------------

\* Python None: distinct from every text (texts hold one-character strings).
None == <<"None">>

\* The character 0x1B.  (The quote characters and the backslash are
\* written "QUOTE", "DQUOTE", "BACKTICK" and "BACKSLASH".)
ESC == "ESC"

Digits == {"0", "1", "2", "3", "4", "5", "6", "7", "8", "9"}

UpperCase == {"A", "B", "C", "D", "E", "F", "G", "H", "I", "J", "K", "L", "M",
              "N", "O", "P", "Q", "R", "S", "T", "U", "V", "W", "X", "Y", "Z"}

LowerCase == {"a", "b", "c", "d", "e", "f", "g", "h", "i", "j", "k", "l", "m",
              "n", "o", "p", "q", "r", "s", "t", "u", "v", "w", "x", "y", "z"}

\* Characters str.strip() removes.
Whitespace == {" ", "\t", "\n", "\r"}

\* [0-?] : 0x30 .. 0x3F
AnsiParamChars == Digits \cup {":", ";", "<", "=", ">", "?"}

\* [ -/] : 0x20 .. 0x2F
AnsiIntermediateChars == {" ", "!", "DQUOTE", "#", "$", "%", "&", "QUOTE", "(", ")",
                          "*", "+", ",", "-", ".", "/"}

\* [@-~] : 0x40 .. 0x7E
AnsiFinalChars == UpperCase \cup LowerCase \cup
                  {"@", "[", "BACKSLASH", "]", "^", "_", "BACKTICK", "{", "|", "}", "~"}

\* first branch of ANSI_ESCAPE : 0x40 .. 0x5A and 0x5C .. 0x5F
AnsiFeChars == UpperCase \cup {"@", "BACKSLASH", "]", "^", "_"}

\* TLC passes operator arguments unevaluated; Eval binds an argument to
\* its value once, so that a recursion costs one evaluation per level.
Eval(e, F(_)) == CHOOSE r \in { F(v) : v \in {e} } : TRUE

Eval2(e1, e2, F(_, _)) == CHOOSE r \in { F(v, w) : v \in {e1}, w \in {e2} } : TRUE

\* sub in s  (Python: sub in s)
Contains(sub0, s0) ==
    Eval2(sub0, s0, LAMBDA sub, s :
        \E i \in 1..(Len(s) - Len(sub) + 1) :
            SubSeq(s, i, i + Len(sub) - 1) = sub)

\* c in s for one character
HasChar(c, s0) == Eval(s0, LAMBDA s : \E i \in 1..Len(s) : s[i] = c)

\* str.lower() on the characters
LowerChar(c) ==
    CASE c = "A" -> "a" [] c = "B" -> "b" [] c = "C" -> "c" [] c = "D" -> "d"
      [] c = "E" -> "e" [] c = "F" -> "f" [] c = "G" -> "g" [] c = "H" -> "h"
      [] c = "I" -> "i" [] c = "J" -> "j" [] c = "K" -> "k" [] c = "L" -> "l"
      [] c = "M" -> "m" [] c = "N" -> "n" [] c = "O" -> "o" [] c = "P" -> "p"
      [] c = "Q" -> "q" [] c = "R" -> "r" [] c = "S" -> "s" [] c = "T" -> "t"
      [] c = "U" -> "u" [] c = "V" -> "v" [] c = "W" -> "w" [] c = "X" -> "x"
      [] c = "Y" -> "y" [] c = "Z" -> "z" [] OTHER -> c

Lower(s0) == Eval(s0, LAMBDA s : [i \in 1..Len(s) |-> LowerChar(s[i])])

RECURSIVE LStrip(_)
LStrip(s0) ==
    Eval(s0, LAMBDA s :
        IF s # <<>> /\ Head(s) \in Whitespace THEN LStrip(Tail(s)) ELSE s)

RECURSIVE RStrip(_)
RStrip(s0) ==
    Eval(s0, LAMBDA s :
        IF s # <<>> /\ s[Len(s)] \in Whitespace
        THEN RStrip(SubSeq(s, 1, Len(s) - 1))
        ELSE s)

\* str.strip()
Strip(s) == RStrip(LStrip(s))

\* s.replace(a, b) for single characters
ReplaceChar(s0, a, b) ==
    Eval(s0, LAMBDA s : [i \in 1..Len(s) |-> IF s[i] = a THEN b ELSE s[i]])

\* s.split(sep) for a single-character separator
RECURSIVE Split(_, _)
Split(s0, sep) ==
    Eval(s0, LAMBDA s :
        IF \A k \in 1..Len(s) : s[k] # sep
        THEN <<s>>
        ELSE Eval(CHOOSE k \in 1..Len(s) :
                      s[k] = sep /\ \A j \in 1..(k - 1) : s[j] # sep,
                  LAMBDA i : <<SubSeq(s, 1, i - 1)>>
                                 \o Split(SubSeq(s, i + 1, Len(s)), sep)))

\* sep.join(parts); the parts are joined by halves, which keeps the
\* recursion shallow on a long list.
RECURSIVE Join(_, _)
Join(parts0, sep) ==
    Eval(parts0, LAMBDA parts :
        IF parts = <<>> THEN <<>>
        ELSE IF Len(parts) = 1 THEN parts[1]
        ELSE LET h == Len(parts) \div 2
             IN  Join(SubSeq(parts, 1, h), sep) \o sep
                     \o Join(SubSeq(parts, h + 1, Len(parts)), sep))

\* re.sub of a trailing run of digits by the empty string
RECURSIVE StripTrailingDigits(_)
StripTrailingDigits(s0) ==
    Eval(s0, LAMBDA s :
        IF s # <<>> /\ s[Len(s)] \in Digits
        THEN StripTrailingDigits(SubSeq(s, 1, Len(s) - 1))
        ELSE s)

\* Length of the longest prefix of s made of characters of class
RECURSIVE RunLen(_, _)
RunLen(s0, class) ==
    Eval(s0, LAMBDA s :
        IF s # <<>> /\ Head(s) \in class THEN 1 + RunLen(Tail(s), class) ELSE 0)

\* Length of the match of ANSI_ESCAPE at the start of s (0: no match).
\* The three classes of the CSI branch are disjoint, so the greedy match
\* is the only candidate.
AnsiMatchLen(s0) ==
    Eval(s0, LAMBDA s :
        IF Len(s) < 2 \/ s[1] # ESC THEN 0
        ELSE IF s[2] \in AnsiFeChars THEN 2
        ELSE IF s[2] # "[" THEN 0
        ELSE Eval(RunLen(SubSeq(s, 3, Len(s)), AnsiParamChars), LAMBDA p :
             Eval(RunLen(SubSeq(s, 3 + p, Len(s)), AnsiIntermediateChars), LAMBDA q :
                 IF 3 + p + q <= Len(s) /\ s[3 + p + q] \in AnsiFinalChars
                 THEN 3 + p + q ELSE 0)))

\* ANSI_ESCAPE.sub of every match by the empty string
RECURSIVE AnsiSub(_)
AnsiSub(s0) ==
    Eval(s0, LAMBDA s :
        IF s = <<>> THEN <<>>
        ELSE Eval(AnsiMatchLen(s), LAMBDA n :
                 IF n > 0 THEN AnsiSub(SubSeq(s, n + 1, Len(s)))
                 ELSE <<Head(s)>> \o AnsiSub(Tail(s))))

\* ------------------------------------------------------------------------
\* update_output: the line reconciler
\* ------------------------------------------------------------------------

\* Retention cap of output_lines.
RetentionCap == 1000

\* Number of trailing entries the backward scan looks at.
LookbackWindow == 10

\* is_progress
IsProgress(line) ==
    HasChar("%", line) /\ HasChar("|", line)
        /\ (HasChar("[", line) \/ HasChar("]", line))

\* ProgressLabel without the removal of the trailing digits (line 262).
ProgressLabel_KeepDigits(line) == Strip(Split(Split(line, "|")[1], "%")[1])

\* label of a progress line
ProgressLabel(line) ==
    Strip(StripTrailingDigits(Strip(Split(Split(line, "|")[1], "%")[1])))

\* The condition of the backward scan on entry e.
LabelMatches(label, e) ==
    label # <<>> /\ Contains(label, e) /\ (HasChar("%", e) \/ HasChar("|", e))

\* LookbackRange scanning the whole buffer (range(len-1, -1, -1)).
LookbackRange_WholeBuffer(lines) == 1..Len(lines)

\* Indices the backward scan visits: range(len-1, max(-1, len-11), -1).
LookbackRange(lines) ==
    { i \in 1..Len(lines) : i > Len(lines) - LookbackWindow }

\* A progress line: overwrite the nearest matching entry or append.
ReconcileProgress(st, clean_line) ==
    Eval(ProgressLabel(clean_line), LAMBDA label :
    Eval({ i \in LookbackRange(st.lines) : LabelMatches(label, st.lines[i]) },
         LAMBDA hits :
             IF hits # {}
             THEN LET i == CHOOSE k \in hits : \A j \in hits : j <= k
                  IN  [lines |-> [st.lines EXCEPT ![i] = clean_line],
                       new_data |-> TRUE]
             ELSE [lines |-> Append(st.lines, clean_line), new_data |-> TRUE]))

\* One candidate line applied to the buffer; st = [lines, new_data].
ReconcileLine(st0, line) ==
    Eval2(st0, Strip(line), LAMBDA st, clean_line :
        IF clean_line = <<>> THEN st
        ELSE IF IsProgress(clean_line)
        THEN ReconcileProgress(st, clean_line)
        ELSE [lines |-> Append(st.lines, clean_line), new_data |-> TRUE])

RECURSIVE ReconcileLines(_, _)
ReconcileLines(st, candidates0) ==
    Eval(candidates0, LAMBDA candidates :
        IF candidates = <<>> THEN st
        ELSE ReconcileLines(ReconcileLine(st, Head(candidates)),
                            Tail(candidates)))

\* Body of the while loop of update_output for one raw message.
ReconcileChunk(st, raw_msg) ==
    Eval(AnsiSub(raw_msg), LAMBDA msg :
        IF msg = <<>> THEN st
        ELSE ReconcileLines(st, Split(ReplaceChar(msg, "\r", "\n"), "\n")))

\* ApplyCap keeping the oldest entries (output_lines[:1000]).
ApplyCap_KeepOldest(lines0) ==
    Eval(lines0, LAMBDA lines :
        IF Len(lines) > RetentionCap THEN SubSeq(lines, 1, RetentionCap) ELSE lines)

\* output_lines[:] = output_lines[-1000:] when longer than the cap
ApplyCap(lines0) ==
    Eval(lines0, LAMBDA lines :
        IF Len(lines) > RetentionCap
        THEN SubSeq(lines, Len(lines) - RetentionCap + 1, Len(lines))
        ELSE lines)


\* ------------------------------------------------------------------------
\* Inputs of one migrate call and outcomes of the collaborators
\* ------------------------------------------------------------------------

\* Values of hf_token.
SourceTokenInputs == {None, <<" ">>, <<" ", "t", " ">>}

\* Values of ms_token.
DestTokenInputs == {None, <<>>, <<"t">>}

\* Values of hf_repo_id.
SourceIdInputs == {<<>>, <<"\t">>, <<"o", "/", "m">>}

\* Values of ms_repo_id.
DestIdInputs == {None, <<" ">>, <<"m">>,
                 <<" ", "u", "/", "m", " ">>, <<"u", "/", "m", "/", "x">>}

RepoTypes == {"model", "dataset"}

Requests ==
    [hf_token : SourceTokenInputs, ms_token : DestTokenInputs,
     hf_repo_id : SourceIdInputs, ms_repo_id : DestIdInputs,
     repo_type : RepoTypes]

\* The literal the create-repository handler looks for.
AlreadyExistsLiteral ==
    <<"a", "l", "r", "e", "a", "d", "y", " ", "e", "x", "i", "s", "t", "s">>

\* str(e) of the exceptions the collaborators raise.
MkdtempErrors == { <<"f", "u", "l", "l">> }

FetchErrors == { <<"4", "0", "4">> }

LoginErrors == { <<"4", "0", "1">> }

RepoExistsErrors == { <<"5", "0", "3">> }

CreateErrors ==
    { <<"r", "e", "p", "o", " ">> \o AlreadyExistsLiteral,
      <<"A", "l", "r", "e", "a", "d", "y", " ", "E", "x", "i", "s", "t", "s">>,
      <<"d", "e", "n", "i", "e", "d">> }

UploadErrors == { <<"5", "0", "0">> }

RmtreeErrors == { <<"b", "u", "s", "y">> }

\* str(e) of a progress tracker that raises.
ProgressErrors == { <<"u", "i">> }

\* Largest number of progress redraws fetch_snapshot writes in one call.
MaxFetchRedraws == 2

\* The i-th of k redraws of the progress bar of fetch_snapshot: every
\* redraw but the first moves the cursor up first, every redraw but the
\* last ends in a carriage return.
FetchRedraw(i, k) ==
    (IF i > 1 THEN <<ESC, "[", "A">> ELSE <<>>)
        \o <<"F", ":", " ", <<"1", "2", "3", "4", "5", "6", "7", "8", "9">>[i],
             "%", "|", "#", " ", "[">>
        \o (IF i < k THEN <<"\r">> ELSE <<"\n">>)

\* What fetch_snapshot writes to stderr while it runs: nothing, or the
\* redraws of one progress bar.
FetchOutputs ==
    { [i \in 1..k |-> FetchRedraw(i, k)] : k \in {0, MaxFetchRedraws} }

\* ------------------------------------------------------------------------
\* Message texts
\* ------------------------------------------------------------------------

MsgAllRequired == <<"<x-error-all-tokens-and-ids-required>">>

MsgNeedNamespace == <<"<x-error-repo-id-must-include-namespace>">>

MsgUnexpected(e) == <<"<x-unexpected-error>", " ">> \o e

MsgDownloadStart(id) == <<"<starting-download-from>", " ">> \o id \o <<".", ".", ".">>

MsgDownloadOk(t) == <<"<ok-downloaded>", " ", t, " ", "<from-huggingface>">>

MsgDownloadFailed(e) == <<"<x-download-failed>", " ">> \o e

MsgUploadStart(id) ==
    <<"\n", "<starting-upload-to>", " ">> \o id \o <<".", ".", ".">>

MsgTokenEmpty == <<"<x-modelscope-token-is-empty>">>

MsgLoginFailed(e) ==
    <<"<x-login-failed>", " ">> \o e \o <<"\n", "\n", "<tip-use-sdk-token>">>

MsgInvalidDatasetId(id) ==
    <<"<x-invalid-dataset-id>", " ">> \o id \o <<".", " ", "<must-be-ns-name>">>

MsgCreateFailed(e) == <<"<x-failed-to-create-repository>", " ">> \o e

MsgUploadOk(t) == <<"<ok-uploaded>", " ", t, " ", "<to-modelscope>">>

MsgUploadFailed(e) == <<"<x-upload-failed>", " ">> \o e

MsgCleaning == <<"\n", "<cleaning-up-temporary-files>">>

MsgCleanupWarning(e) == <<"<warning-failed-to-clean-up>", " ">> \o e

MsgCleanupComplete == <<"<ok-cleanup-complete>">>

\* The two verdict markers of the final status.
VerdictCompleted == <<"<migration-completed-successfully>">>

VerdictFailed == <<"<migration-failed>">>

SuccessSuffix(t, id) ==
    <<"\n", "\n">> \o VerdictCompleted
        \o <<"\n", "<your>", " ", t, " ", "<is-available-at-models-url>">> \o id

FailureSuffix(message) == <<"\n", "\n">> \o VerdictFailed \o <<" ">> \o message

\* FinalStatus choosing the suffix by the message instead of the success value.
FinalStatus_ByMessage(status, res, t, id) ==
    IF res.message # <<>> THEN status \o SuccessSuffix(t, id)
    ELSE status \o FailureSuffix(res.message)

\* final_status after lines 370-376
FinalStatus(status, res, t, id) ==
    IF res.success THEN status \o SuccessSuffix(t, id)
    ELSE status \o FailureSuffix(res.message)

\* ------------------------------------------------------------------------
\* run_migration helpers
\* ------------------------------------------------------------------------

\* x.strip() if x else ""
CleanInput(x) == IF x = None \/ x = <<>> THEN <<>> ELSE Strip(x)

\* AllRequiredPresent with the test of ms_token left out.
AllRequiredPresent_NoDestToken(ht, mt, hid, mid) ==
    ht # <<>> /\ hid # <<>> /\ mid # <<>>

\* negation of the test of line 304, on the cleaned values
AllRequiredPresent(ht, mt, hid, mid) ==
    ht # <<>> /\ mt # <<>> /\ hid # <<>> /\ mid # <<>>

\* HasNamespace with the test left out.
HasNamespace_Always(mid) == TRUE

\* negation of the test of line 309
HasNamespace(mid) == HasChar("/", mid)

\* CreateErrorIgnored comparing without lower().
CreateErrorIgnored_CaseSensitive(error_msg) ==
    Contains(AlreadyExistsLiteral, error_msg)

\* the test of line 163 negated: the creation error is ignored
CreateErrorIgnored(error_msg) == Contains(AlreadyExistsLiteral, Lower(error_msg))

\* print(text): the file object is looked up once, then written twice.
PrintTo(target, text) ==
    << [target |-> target, text |-> text], [target |-> target, text |-> <<"\n">>] >>


\* ------------------------------------------------------------------------
\* State
\* ------------------------------------------------------------------------

VARIABLES
    req,           \* the arguments of the migrate call, as passed
    hf_token,      \* the four arguments run_migration rebinds (nonlocal)
    ms_token,
    hf_repo_id,
    ms_repo_id,
    temp_dir,      \* MigrationTool.temp_dir: None or a directory
    fs,            \* the temporary directories that exist
    sys_stdout,    \* "original" or "tee" (a StreamToQueue)
    sys_stderr,
    log_queue,     \* queue.Queue of raw chunks
    output_lines,  \* the buffer of update_output
    new_data,      \* local of the running update_output call
    results,       \* the dict shared by the two threads
    mainPc,        \* position of the generator
    bgPc,          \* position of run_migration
    pending,       \* writes of the current print / collaborator not yet made
    bg_local,      \* success, msg, local_path of run_migration
    last_yield,    \* the value the observer received last (NoYield: none)
    final_yields,  \* number of values yielded after the flag was seen set
    calls,         \* collaborator invocations, in order
    written,       \* every write the background task has made
    drained,       \* every chunk update_output has taken from the queue
    console,       \* every text the original streams have received
    made_dir       \* number of directories mkdtemp has made

vars == <<req, hf_token, ms_token, hf_repo_id, ms_repo_id, temp_dir, fs,
          sys_stdout, sys_stderr, log_queue, output_lines, new_data, results,
          mainPc, bgPc, pending, bg_local, last_yield, final_yields, calls,
          written, drained, console,
          made_dir>>

argVars == <<req, hf_token, ms_token, hf_repo_id, ms_repo_id>>

dirVars == <<temp_dir, fs, made_dir>>

streamVars == <<sys_stdout, sys_stderr>>

yieldVars == <<last_yield, final_yields>>

pollVars == <<output_lines, new_data, yieldVars, drained>>

writeVars == <<written, console>>

\* results = {"success": False, "message": "", "finished": False}
InitialResults == [success |-> FALSE, message |-> <<>>, finished |-> FALSE]

\* No value has been yielded yet.
NoYield == [text |-> <<>>, final |-> FALSE, any |-> FALSE]

NoLocals == [success |-> FALSE, msg |-> <<>>, local_path |-> None]

\* A MigrationTool was constructed and migrate(...) was called on it; the
\* generator has not run yet.
Init ==
    /\ req \in Requests
    /\ hf_token = req.hf_token
    /\ ms_token = req.ms_token
    /\ hf_repo_id = req.hf_repo_id
    /\ ms_repo_id = req.ms_repo_id
    /\ temp_dir = None
    /\ fs = {}
    /\ sys_stdout = "original"
    /\ sys_stderr = "original"
    /\ log_queue = <<>>
    /\ output_lines = <<>>
    /\ new_data = FALSE
    /\ results = InitialResults
    /\ mainPc = "redirect"
    /\ bgPc = "idle"
    /\ pending = <<>>
    /\ bg_local = NoLocals
    /\ last_yield = NoYield
    /\ final_yields = 0
    /\ calls = <<>>
    /\ written = <<>>
    /\ drained = <<>>
    /\ console = <<>>
    /\ made_dir = 0

\* ------------------------------------------------------------------------
\* The background task: run_migration
\* ------------------------------------------------------------------------

\* An entry of the trace of collaborator invocations: status is "running",
\* "ok", "true", "false" or "error" (with str(e) as error).
Call(name, status, e) == [name |-> name, status |-> status, error |-> e]

\* The except clause of run_migration.
Unexpected(e) ==
    /\ results' = [results EXCEPT !.message = MsgUnexpected(e)]
    /\ bgPc' = "finally"

\* An early return of run_migration: the message, the flag, then the
\* finally block.
EarlyReturn(message) ==
    /\ results' = [results EXCEPT !.message = message, !.finished = TRUE]
    /\ bgPc' = "finally"

\* Lines 296-312: clean and validate the inputs.
BgValidate ==
    /\ bgPc = "validate"
    /\ pending = <<>>
    /\ \/ \E e \in ProgressErrors :
            /\ Unexpected(e)
            /\ UNCHANGED <<hf_token, ms_token, hf_repo_id, ms_repo_id>>
       \/ LET ht  == CleanInput(hf_token)
              mt  == CleanInput(ms_token)
              hid == CleanInput(hf_repo_id)
              mid == CleanInput(ms_repo_id)
          IN  /\ hf_token' = ht
              /\ ms_token' = mt
              /\ hf_repo_id' = hid
              /\ ms_repo_id' = mid
              /\ IF ~AllRequiredPresent(ht, mt, hid, mid)
                 THEN EarlyReturn(MsgAllRequired)
                 ELSE IF ~HasNamespace(mid)
                 THEN EarlyReturn(MsgNeedNamespace)
                 ELSE /\ bgPc' = "download_start"
                      /\ UNCHANGED results
    /\ UNCHANGED <<req, dirVars, streamVars, log_queue, pollVars, mainPc,
                   pending, bg_local, calls, writeVars>>

\* Lines 315-316: report progress, announce the download.
BgDownloadStart ==
    /\ bgPc = "download_start"
    /\ pending = <<>>
    /\ \/ \E e \in ProgressErrors :
            /\ Unexpected(e)
            /\ UNCHANGED pending
       \/ /\ pending' = PrintTo(sys_stdout, MsgDownloadStart(hf_repo_id))
          /\ bgPc' = "mkdtemp"
          /\ UNCHANGED results
    /\ UNCHANGED <<argVars, dirVars, streamVars, log_queue, pollVars, mainPc,
                   bg_local, calls, writeVars>>

\* The return of download_from_hf followed by print(msg) of line 318.
DownloadReturns(success, msg, local_path) ==
    /\ bg_local' = [success |-> success, msg |-> msg, local_path |-> local_path]
    /\ pending' = PrintTo(sys_stdout, msg)
    /\ bgPc' = "download_check"

\* The n-th directory tempfile.mkdtemp(prefix="hf2ms_") returns.
TempDir(n) == <<"<tmp-hf2ms>", n>>

\* Lines 51-53: download_from_hf makes the temporary directory.
BgMkdtemp ==
    /\ bgPc = "mkdtemp"
    /\ pending = <<>>
    /\ \/ LET d == TempDir(made_dir + 1)
          IN  /\ temp_dir' = d
              /\ fs' = fs \cup {d}
              /\ made_dir' = made_dir + 1
              /\ bgPc' = "fetch"
              /\ UNCHANGED <<bg_local, pending>>
       \/ \E e \in MkdtempErrors :
            /\ DownloadReturns(FALSE, MsgDownloadFailed(e), None)
            /\ UNCHANGED dirVars
    /\ UNCHANGED <<argVars, streamVars, log_queue, pollVars, mainPc, results,
                   calls, writeVars>>

\* Lines 56-62: snapshot_download is called and runs, writing to stderr.
BgFetchCall ==
    /\ bgPc = "fetch"
    /\ pending = <<>>
    /\ calls' = Append(calls, Call("fetch_snapshot", "running", <<>>))
    /\ \E out \in FetchOutputs :
          pending' = [i \in 1..Len(out) |-> [target |-> sys_stderr, text |-> out[i]]]
    /\ bgPc' = "fetch_return"
    /\ UNCHANGED <<argVars, dirVars, streamVars, log_queue, pollVars, mainPc,
                   results, bg_local, writeVars>>

\* The last call of the trace returns with this status and error text.
Returned(status, e) ==
    calls' = [calls EXCEPT ![Len(calls)] = Call(calls[Len(calls)].name, status, e)]

\* Lines 56-66 and 318: snapshot_download returns or raises.
BgFetchReturn ==
    /\ bgPc = "fetch_return"
    /\ pending = <<>>
    /\ \/ /\ Returned("ok", <<>>)
          /\ DownloadReturns(TRUE, MsgDownloadOk(req.repo_type), temp_dir)
       \/ \E e \in FetchErrors :
            /\ Returned("error", e)
            /\ DownloadReturns(FALSE, MsgDownloadFailed(e), None)
    /\ UNCHANGED <<argVars, dirVars, streamVars, log_queue, pollVars, mainPc,
                   results, writeVars>>

\* BgDownloadCheck going on to the upload after a failed download.
BgDownloadCheck_NoShortCircuit ==
    /\ bgPc = "download_check"
    /\ pending = <<>>
    /\ bgPc' = "upload_start"
    /\ UNCHANGED <<argVars, dirVars, streamVars, log_queue, pollVars, mainPc,
                   results, pending, bg_local, calls, writeVars>>

\* Lines 319-322: a failed download ends the migration.
BgDownloadCheck ==
    /\ bgPc = "download_check"
    /\ pending = <<>>
    /\ IF ~bg_local.success
       THEN EarlyReturn(bg_local.msg)
       ELSE /\ bgPc' = "upload_start"
            /\ UNCHANGED results
    /\ UNCHANGED <<argVars, dirVars, streamVars, log_queue, pollVars, mainPc,
                   pending, bg_local, calls, writeVars>>

\* Lines 325-326: report progress, announce the upload.
BgUploadStart ==
    /\ bgPc = "upload_start"
    /\ pending = <<>>
    /\ \/ \E e \in ProgressErrors :
            /\ Unexpected(e)
            /\ UNCHANGED pending
       \/ /\ pending' = PrintTo(sys_stdout, MsgUploadStart(ms_repo_id))
          /\ bgPc' = "login"
          /\ UNCHANGED results
    /\ UNCHANGED <<argVars, dirVars, streamVars, log_queue, pollVars, mainPc,
                   bg_local, calls, writeVars>>

\* A return of upload_to_ms.
UploadReturns(success, msg) ==
    /\ bg_local' = [bg_local EXCEPT !.success = success, !.msg = msg]
    /\ bgPc' = "upload_result"

\* Lines 92-103: upload_to_ms checks the token and logs in.
BgLogin ==
    /\ bgPc = "login"
    /\ pending = <<>>
    /\ IF Strip(ms_token) = <<>>
       THEN /\ UploadReturns(FALSE, MsgTokenEmpty)
            /\ UNCHANGED calls
       ELSE \/ /\ calls' = Append(calls, Call("login", "ok", <<>>))
               /\ bgPc' = "repo_exists"
               /\ UNCHANGED bg_local
            \/ \E e \in LoginErrors :
                 /\ calls' = Append(calls, Call("login", "error", e))
                 /\ UploadReturns(FALSE, MsgLoginFailed(e))
    /\ UNCHANGED <<argVars, dirVars, streamVars, log_queue, pollVars, mainPc,
                   results, pending, writeVars>>


\* AfterRepoExists creating the repository whatever the check said.
AfterRepoExists_AlwaysCreate(repo_exists) == "create_repo"

\* Line 125: where upload_to_ms goes after the existence check.
AfterRepoExists(repo_exists) ==
    IF ~repo_exists THEN "create_repo" ELSE "upload_folder"

\* Lines 119-125 and 183-184: the existence check.
BgRepoExists ==
    /\ bgPc = "repo_exists"
    /\ pending = <<>>
    /\ \/ \E b \in BOOLEAN :
            /\ calls' = Append(calls, Call("repo_exists", IF b THEN "true" ELSE "false", <<>>))
            /\ bgPc' = AfterRepoExists(b)
            /\ UNCHANGED bg_local
       \/ \E e \in RepoExistsErrors :
            /\ calls' = Append(calls, Call("repo_exists", "error", e))
            /\ UploadReturns(FALSE, MsgUploadFailed(e))
    /\ UNCHANGED <<argVars, dirVars, streamVars, log_queue, pollVars, mainPc,
                   results, pending, writeVars>>

\* Lines 126-164: create the repository; create_model and create_dataset
\* are the create_repo collaborator.
BgCreateRepo ==
    /\ bgPc = "create_repo"
    /\ pending = <<>>
    /\ IF req.repo_type # "model" /\ Len(Split(ms_repo_id, "/")) # 2
       THEN /\ UploadReturns(FALSE, MsgInvalidDatasetId(ms_repo_id))
            /\ UNCHANGED calls
       ELSE \/ /\ calls' = Append(calls, Call("create_repo", "ok", <<>>))
               /\ bgPc' = "upload_folder"
               /\ UNCHANGED bg_local
            \/ \E e \in CreateErrors :
                 /\ calls' = Append(calls, Call("create_repo", "error", e))
                 /\ IF ~CreateErrorIgnored(e)
                    THEN UploadReturns(FALSE, MsgCreateFailed(e))
                    ELSE /\ bgPc' = "upload_folder"
                         /\ UNCHANGED bg_local
    /\ UNCHANGED <<argVars, dirVars, streamVars, log_queue, pollVars, mainPc,
                   results, pending, writeVars>>

\* Lines 166-184: push the folder.
BgUploadFolder ==
    /\ bgPc = "upload_folder"
    /\ pending = <<>>
    /\ \/ /\ calls' = Append(calls, Call("upload_folder", "ok", <<>>))
          /\ UploadReturns(TRUE, MsgUploadOk(req.repo_type))
       \/ \E e \in UploadErrors :
            /\ calls' = Append(calls, Call("upload_folder", "error", e))
            /\ UploadReturns(FALSE, MsgUploadFailed(e))
    /\ UNCHANGED <<argVars, dirVars, streamVars, log_queue, pollVars, mainPc,
                   results, pending, writeVars>>

\* Line 336: print(msg) after upload_to_ms returned.
BgUploadResult ==
    /\ bgPc = "upload_result"
    /\ pending = <<>>
    /\ pending' = PrintTo(sys_stdout, bg_local.msg)
    /\ bgPc' = "store_result"
    /\ UNCHANGED <<argVars, dirVars, streamVars, log_queue, pollVars, mainPc,
                   results, bg_local, calls, writeVars>>

\* Lines 337-338: the outcome of the upload becomes the result.
BgStoreResult ==
    /\ bgPc = "store_result"
    /\ pending = <<>>
    /\ results' = [results EXCEPT !.success = bg_local.success,
                                  !.message = bg_local.msg]
    /\ bgPc' = "finally"
    /\ UNCHANGED <<argVars, dirVars, streamVars, log_queue, pollVars, mainPc,
                   pending, bg_local, calls, writeVars>>

\* Line 343: the finally block announces the cleanup.
BgFinally ==
    /\ bgPc = "finally"
    /\ pending = <<>>
    /\ pending' = PrintTo(sys_stdout, MsgCleaning)
    /\ bgPc' = "cleanup"
    /\ UNCHANGED <<argVars, dirVars, streamVars, log_queue, pollVars, mainPc,
                   results, bg_local, calls, writeVars>>

\* Lines 186-193 (called at line 344): MigrationTool.cleanup.
\* BgCleanup without the except clause of lines 192-193: the fault of rmtree
\* leaves the finally block of run_migration and ends the task.
BgCleanup_Propagates ==
    /\ bgPc = "cleanup"
    /\ pending = <<>>
    /\ IF temp_dir # None /\ temp_dir \in fs
       THEN \/ /\ fs' = fs \ {temp_dir}
               /\ temp_dir' = None
               /\ bgPc' = "cleanup_done"
            \/ /\ bgPc' = "done"
               /\ UNCHANGED <<fs, temp_dir>>
       ELSE /\ bgPc' = "cleanup_done"
            /\ UNCHANGED <<fs, temp_dir>>
    /\ UNCHANGED <<argVars, made_dir, streamVars, log_queue, pollVars, mainPc,
                   pending, results, bg_local, calls, writeVars>>

BgCleanup ==
    /\ bgPc = "cleanup"
    /\ pending = <<>>
    /\ IF temp_dir # None /\ temp_dir \in fs
       THEN \/ /\ fs' = fs \ {temp_dir}
               /\ temp_dir' = None
               /\ UNCHANGED pending
            \/ \E e \in RmtreeErrors :
                 /\ pending' = PrintTo(sys_stdout, MsgCleanupWarning(e))
                 /\ UNCHANGED <<fs, temp_dir>>
       ELSE UNCHANGED <<fs, temp_dir, pending>>
    /\ bgPc' = "cleanup_done"
    /\ UNCHANGED <<argVars, made_dir, streamVars, log_queue, pollVars, mainPc,
                   results, bg_local, calls, writeVars>>

\* Line 345.
BgCleanupDone ==
    /\ bgPc = "cleanup_done"
    /\ pending = <<>>
    /\ pending' = PrintTo(sys_stdout, MsgCleanupComplete)
    /\ bgPc' = "set_finished"
    /\ UNCHANGED <<argVars, dirVars, streamVars, log_queue, pollVars, mainPc,
                   results, bg_local, calls, writeVars>>

\* BgSetFinished also storing the outcome of the upload (lines 337-338
\* moved into the finally block).
BgSetFinished_StoresOutcome ==
    /\ bgPc = "set_finished"
    /\ pending = <<>>
    /\ results' = [success |-> bg_local.success, message |-> bg_local.msg,
                   finished |-> TRUE]
    /\ bgPc' = "done"
    /\ UNCHANGED <<argVars, dirVars, streamVars, log_queue, pollVars, mainPc,
                   pending, bg_local, calls, writeVars>>

\* BgSetFinished leaving the flag alone.
BgSetFinished_NoFlag ==
    /\ bgPc = "set_finished"
    /\ pending = <<>>
    /\ bgPc' = "done"
    /\ UNCHANGED <<argVars, dirVars, streamVars, log_queue, pollVars, mainPc,
                   results, pending, bg_local, calls, writeVars>>

\* Line 346: the completion flag at the end of the finally block.
BgSetFinished ==
    /\ bgPc = "set_finished"
    /\ pending = <<>>
    /\ results' = [results EXCEPT !.finished = TRUE]
    /\ bgPc' = "done"
    /\ UNCHANGED <<argVars, dirVars, streamVars, log_queue, pollVars, mainPc,
                   pending, bg_local, calls, writeVars>>

\* StreamToQueue.write (lines 224-229) on a tee, a plain write on the
\* original stream: the next write of the background task.  Either way a
\* non-empty text reaches the original stream.  The write to the original
\* stream is taken not to raise.
BgWrite ==
    /\ pending # <<>>
    /\ LET w == Head(pending)
       IN  /\ written' = Append(written, w)
           /\ console' = IF w.text # <<>> THEN Append(console, w.text)
                          ELSE console
           /\ log_queue' = IF w.target = "tee" /\ w.text # <<>>
                           THEN Append(log_queue, w.text)
                           ELSE log_queue
    /\ pending' = Tail(pending)
    /\ UNCHANGED <<argVars, dirVars, streamVars, pollVars, mainPc, bgPc,
                   results, bg_local, calls>>

BgNext ==
    \/ BgValidate \/ BgDownloadStart \/ BgMkdtemp \/ BgFetchCall
    \/ BgFetchReturn \/ BgDownloadCheck \/ BgUploadStart \/ BgLogin
    \/ BgRepoExists \/ BgCreateRepo \/ BgUploadFolder \/ BgUploadResult
    \/ BgStoreResult \/ BgFinally \/ BgCleanup \/ BgCleanupDone
    \/ BgSetFinished \/ BgWrite

\* ------------------------------------------------------------------------
\* The generator: migrate
\* ------------------------------------------------------------------------

\* Lines 215-216, 292, 349-352: the first next() runs the generator up to
\* the redirection of both streams.
Redirect ==
    /\ mainPc = "redirect"
    /\ log_queue' = <<>>
    /\ output_lines' = <<>>
    /\ results' = InitialResults
    /\ sys_stdout' = "tee"
    /\ sys_stderr' = "tee"
    /\ mainPc' = "start"
    /\ UNCHANGED <<argVars, dirVars, new_data, yieldVars, drained, bgPc,
                   pending, bg_local, calls, writeVars>>

\* Lines 356-357: the thread is created and started.
StartThread ==
    /\ mainPc = "start"
    /\ bgPc' = "validate"
    /\ mainPc' = "check"
    /\ UNCHANGED <<argVars, dirVars, streamVars, log_queue, pollVars, results,
                   pending, bg_local, calls, writeVars>>

\* Line 360 (and 235): the loop test; either branch enters update_output.
CheckFinished ==
    /\ mainPc = "check"
    /\ mainPc' = IF ~results.finished THEN "poll" ELSE "final_poll"
    /\ new_data' = FALSE
    /\ UNCHANGED <<argVars, dirVars, streamVars, log_queue, output_lines,
                   yieldVars, drained, results, bgPc, pending, bg_local, calls,
                   writeVars>>

\* DrainChunk reading the first chunk without taking it off the queue.
DrainChunk_NoRemove ==
    /\ mainPc \in {"poll", "final_poll"}
    /\ log_queue # <<>>
    /\ LET raw_msg == Head(log_queue)
           st == ReconcileChunk([lines |-> output_lines, new_data |-> new_data],
                                raw_msg)
       IN  /\ output_lines' = st.lines
           /\ new_data' = st.new_data
           /\ drained' = Append(drained, raw_msg)
    /\ UNCHANGED <<argVars, dirVars, streamVars, yieldVars, results, mainPc,
                   bgPc, pending, bg_local, calls, writeVars, log_queue>>

\* Lines 236-283: one iteration of the while loop of update_output.
DrainChunk ==
    /\ mainPc \in {"poll", "final_poll"}
    /\ log_queue # <<>>
    /\ LET raw_msg == Head(log_queue)
           st == ReconcileChunk([lines |-> output_lines, new_data |-> new_data],
                                raw_msg)
       IN  /\ output_lines' = st.lines
           /\ new_data' = st.new_data
           /\ drained' = Append(drained, raw_msg)
    /\ log_queue' = Tail(log_queue)
    /\ UNCHANGED <<argVars, dirVars, streamVars, yieldVars, results, mainPc,
                   bgPc, pending, bg_local, calls, writeVars>>

\* A value handed to the observer; final: yielded by line 378.
Snapshot(text, final) == [text |-> text, final |-> final, any |-> TRUE]

\* yield: the observer receives the value.
Yield(value) ==
    /\ last_yield' = value
    /\ final_yields' = IF mainPc = "final_poll" THEN final_yields + 1
                       ELSE final_yields

\* EndPoll yielding the status with the verdict already appended.
EndPoll_WithVerdict ==
    /\ mainPc = "poll"
    /\ log_queue = <<>>
    /\ output_lines' = ApplyCap(output_lines)
    /\ IF new_data
       THEN /\ Yield(Snapshot(FinalStatus(Join(ApplyCap(output_lines), <<"\n">>),
                                          results, req.repo_type, ms_repo_id),
                              FALSE))
            /\ mainPc' = "yielded"
       ELSE /\ mainPc' = "check"
            /\ UNCHANGED yieldVars
    /\ UNCHANGED <<argVars, dirVars, streamVars, log_queue, new_data, drained,
                   results, bgPc, pending, bg_local, calls, writeVars>>

\* Lines 285-289 and 362-364: update_output returns inside the loop; the
\* status is yielded if it was updated, then the loop sleeps.
EndPoll ==
    /\ mainPc = "poll"
    /\ log_queue = <<>>
    /\ output_lines' = ApplyCap(output_lines)
    /\ IF new_data
       THEN /\ Yield(Snapshot(Join(ApplyCap(output_lines), <<"\n">>), FALSE))
            /\ mainPc' = "yielded"
       ELSE /\ mainPc' = "check"
            /\ UNCHANGED yieldVars
    /\ UNCHANGED <<argVars, dirVars, streamVars, log_queue, new_data, drained,
                   results, bgPc, pending, bg_local, calls, writeVars>>

\* Line 364: the observer asks for the next value; the loop sleeps and
\* tests the flag again.
Resume ==
    /\ mainPc = "yielded"
    /\ mainPc' = "check"
    /\ UNCHANGED <<argVars, dirVars, streamVars, log_queue, pollVars, results,
                   bgPc, pending, bg_local, calls, writeVars>>

\* Lines 285-289 and 367-378: the last update_output returns, the verdict
\* is appended and the final status is yielded.  The progress tracker is
\* taken to return at lines 371 and 375.
FinalYield ==
    /\ mainPc = "final_poll"
    /\ log_queue = <<>>
    /\ output_lines' = ApplyCap(output_lines)
    /\ Yield(Snapshot(FinalStatus(Join(ApplyCap(output_lines), <<"\n">>),
                                  results, req.repo_type, ms_repo_id), TRUE))
    /\ mainPc' = "final_yielded"
    /\ UNCHANGED <<argVars, dirVars, streamVars, log_queue, new_data, drained,
                   results, bgPc, pending, bg_local, calls, writeVars>>

\* RestoreStreams leaving sys.stderr redirected.
RestoreStreams_StdoutOnly ==
    /\ sys_stdout' = "original"
    /\ UNCHANGED sys_stderr

\* Lines 382-383: the finally block of migrate puts old_stdout and
\* old_stderr back.
RestoreStreams ==
    /\ sys_stdout' = "original"
    /\ sys_stderr' = "original"

\* Lines 380-383: the observer asks for a value after the last one; the
\* finally block restores both streams and the generator ends.
Restore ==
    /\ mainPc = "final_yielded"
    /\ RestoreStreams
    /\ mainPc' = "done"
    /\ UNCHANGED <<argVars, dirVars, log_queue, pollVars, results, bgPc,
                   pending, bg_local, calls, writeVars>>

MainNext ==
    \/ Redirect \/ StartThread \/ CheckFinished \/ DrainChunk \/ EndPoll
    \/ Resume \/ FinalYield \/ Restore

Next == BgNext \/ MainNext

Spec == Init /\ [][Next]_vars

\* Both threads keep being scheduled and the observer keeps iterating.
FairSpec == Spec /\ WF_vars(BgNext) /\ WF_vars(MainNext)

\* ------------------------------------------------------------------------
\* The other ways the generator ends
\* ------------------------------------------------------------------------

\* The observer closes the generator (close(), or the generator is
\* collected): GeneratorExit is raised at the yield of line 363 or 378 and
\* the finally block runs; a generator that never ran just ends.
Close ==
    /\ mainPc \in {"redirect", "yielded", "final_yielded"}
    /\ IF mainPc = "redirect" THEN UNCHANGED streamVars ELSE RestoreStreams
    /\ mainPc' = "closed"
    /\ UNCHANGED <<argVars, dirVars, log_queue, pollVars, results, bgPc,
                   pending, bg_local, calls, writeVars>>

\* Line 357: thread.start() raises (no thread can be started); the
\* finally block runs and the error leaves the generator.
StartFault ==
    /\ mainPc = "start"
    /\ RestoreStreams
    /\ mainPc' = "raised"
    /\ UNCHANGED <<argVars, dirVars, log_queue, pollVars, results, bgPc,
                   pending, bg_local, calls, writeVars>>

\* Lines 367-375 and 380-383: the last update_output returns, then the
\* progress tracker raises at line 371 or 375; the finally block runs and
\* the error leaves the generator.
FinalProgressFault ==
    /\ mainPc = "final_poll"
    /\ log_queue = <<>>
    /\ \E e \in ProgressErrors :
          /\ output_lines' = ApplyCap(output_lines)
          /\ RestoreStreams
          /\ mainPc' = "raised"
    /\ UNCHANGED <<argVars, dirVars, log_queue, new_data, yieldVars, drained,
                   results, bgPc, pending, bg_local, calls, writeVars>>

ExitNext == Close \/ StartFault \/ FinalProgressFault

\* The migration with every way the generator can end.
ExitSpec == Init /\ [][Next \/ ExitNext]_vars


\* ------------------------------------------------------------------------
\* update_output under the output of the rest of the process
\* ------------------------------------------------------------------------

\* Largest number of writes other code of the process makes to the
\* redirected streams.
MaxCapturedWrites == 3

\* str(n) for a natural number
RECURSIVE DecimalText(_)
DecimalText(n0) ==
    Eval(n0, LAMBDA n :
        LET d == <<"0", "1", "2", "3", "4", "5", "6", "7", "8", "9">>[(n % 10) + 1]
        IN  IF n < 10 THEN <<d>> ELSE Append(DecimalText(n \div 10), d))

\* A redraw of a progress bar as tqdm writes it: label, percentage, bar
\* and the bracketed statistics.
BarLine(label, pct) == label \o <<" ", pct, "%", "|", "#", "|", " ", "[", "]">>

\* A redraw without the bracketed statistics.
BareBarLine(label, pct) == label \o <<" ", pct, "%", "|", "#", "|">>

\* The redraws of the bar labelled A.
RedrawsOfA ==
    { BarLine(<<"A">>, "1") \o <<"\r">>, BarLine(<<"A">>, "2") \o <<"\n">> }

\* The redraws of the bar labelled A, without brackets.
BareRedrawsOfA == { BareBarLine(<<"A">>, "1") \o <<"\r">> }

\* The redraws of the bar labelled AB.
RedrawsOfAB == { BarLine(<<"A", "B">>, "1") \o <<"\r">> }

\* A bar without a label.
UnlabelledRedraws == { <<"5", "%", "|", "[", "\r">> }

\* Two plain lines in one write.
PlainFragments == { <<"x", "\n", "y", "\n">> }

\* An escape sequence inside another one.
NestedEscapeFragments == { <<ESC, ESC, "[", "A", "[", "A">> }

\* The beginning of a line, written before the rest of it (print writes
\* each argument, each separator and the end in a write of its own).
PartialLineFragments == { <<"a", " ">> }

\* What other code of the process writes to sys.stdout or sys.stderr
\* while they are redirected (the argument s of StreamToQueue.write).
CapturedFragments ==
    RedrawsOfA \cup BareRedrawsOfA \cup RedrawsOfAB \cup UnlabelledRedraws
        \cup PlainFragments \cup NestedEscapeFragments
        \cup PartialLineFragments

\* n plain lines: "1", "2", ...
PlainLines(n) == [i \in 1..n |-> DecimalText(i)]

\* A bar followed by as many plain lines as the backward scan looks at.
BarOutOfWindow == <<BarLine(<<"A">>, "0")>> \o PlainLines(LookbackWindow)

\* Buffers update_output has built from what was captured before.
InitialBuffers == { <<>>, BarOutOfWindow, PlainLines(RetentionCap - 1) }

\* The generator has redirected the streams and started the thread, which
\* has not run yet; the buffer holds what was captured so far; written and
\* drained record the writes made from here on.
CaptureInit ==
    /\ req = [hf_token |-> <<" ", "t", " ">>, ms_token |-> <<"t">>,
              hf_repo_id |-> <<"o", "/", "m">>,
              ms_repo_id |-> <<" ", "u", "/", "m", " ">>, repo_type |-> "model"]
    /\ hf_token = req.hf_token
    /\ ms_token = req.ms_token
    /\ hf_repo_id = req.hf_repo_id
    /\ ms_repo_id = req.ms_repo_id
    /\ temp_dir = None
    /\ fs = {}
    /\ sys_stdout = "tee"
    /\ sys_stderr = "tee"
    /\ log_queue = <<>>
    /\ output_lines \in InitialBuffers
    /\ new_data = FALSE
    /\ results = InitialResults
    /\ mainPc = "check"
    /\ bgPc = "validate"
    /\ pending = <<>>
    /\ bg_local = NoLocals
    /\ last_yield = NoYield
    /\ final_yields = 0
    /\ calls = <<>>
    /\ written = <<>>
    /\ drained = <<>>
    /\ console = <<>>
    /\ made_dir = 0

\* StreamToQueue.write (lines 224-229) called by other code of the process
\* on one of the redirected streams.
ProcessWrite ==
    /\ Len(written) < MaxCapturedWrites
    /\ \E stream \in {sys_stdout, sys_stderr}, s \in CapturedFragments :
          /\ stream = "tee"
          /\ written' = Append(written, [target |-> stream, text |-> s])
          /\ console' = IF s # <<>> THEN Append(console, s) ELSE console
          /\ log_queue' = IF s # <<>> THEN Append(log_queue, s) ELSE log_queue
    /\ UNCHANGED <<argVars, dirVars, streamVars, pollVars, mainPc, bgPc,
                   results, pending, bg_local, calls>>

\* The polling loop while the thread has not been scheduled.
CaptureNext == ProcessWrite \/ CheckFinished \/ DrainChunk \/ EndPoll \/ Resume

CaptureSpec == CaptureInit /\ [][CaptureNext]_vars


\* ------------------------------------------------------------------------
\* Vocabulary of the properties
\* ------------------------------------------------------------------------

\* A field is missing or blank after trimming.
Blank(x) == x = None \/ \A i \in 1..Len(x) : x[i] \in Whitespace

\* The request, as passed, fails validation.
RequestInvalid ==
    \/ Blank(req.hf_token) \/ Blank(req.ms_token)
    \/ Blank(req.hf_repo_id) \/ Blank(req.ms_repo_id)
    \/ \A i \in 1..Len(req.ms_repo_id) : req.ms_repo_id[i] # "/"

\* The destination id, trimmed.
DestinationId == Strip(req.ms_repo_id)

CallIndices == 1..Len(calls)

Collaborators == {"fetch_snapshot", "repo_exists", "create_repo", "upload_folder"}

FetchFailedWith(e) ==
    \E i \in CallIndices :
        calls[i] = Call("fetch_snapshot", "error", e)

FetchSucceeded == \E i \in CallIndices : calls[i] = Call("fetch_snapshot", "ok", <<>>)

UploadSucceeded == \E i \in CallIndices : calls[i] = Call("upload_folder", "ok", <<>>)

VerdictMarkers == {VerdictCompleted[1], VerdictFailed[1]}

MarkerIndices(text) == { i \in 1..Len(text) : text[i] \in VerdictMarkers }

\* The text from its first verdict marker on.
VerdictPart(text) ==
    IF MarkerIndices(text) = {} THEN <<>>
    ELSE SubSeq(text,
                CHOOSE i \in MarkerIndices(text) : \A j \in MarkerIndices(text) : i <= j,
                Len(text))

IsFailureVerdict(y) ==
    y.final /\ HasChar(VerdictFailed[1], y.text) /\ ~HasChar(VerdictCompleted[1], y.text)

IsSuccessVerdict(y) ==
    y.final /\ HasChar(VerdictCompleted[1], y.text) /\ ~HasChar(VerdictFailed[1], y.text)

FinalReceived == last_yield.final

WrittenTexts == [i \in 1..Len(written) |-> written[i].text]

HasWritten(text) == \E i \in 1..Len(written) : written[i].text = text

\* cleanup was called and returned
CleanupHasRun == bgPc \in {"cleanup_done", "set_finished", "done"}

\* The directory this migration made still exists.
OwnDirExists == made_dir > 0 /\ TempDir(made_dir) \in fs

IsPrefix(p, t) == Len(p) <= Len(t) /\ SubSeq(t, 1, Len(p)) = p

\* ------------------------------------------------------------------------
\* Properties
\* ------------------------------------------------------------------------

\* C1: once the final value is yielded, the background task writes nothing
\* more, the capture channel is empty and every chunk it wrote has been
\* drained by update_output.
C1_NoCapturedOutputLost ==
    FinalReceived =>
        /\ bgPc = "done"
        /\ log_queue = <<>>
        /\ drained = WrittenTexts

\* C2: when the observer has the final verdict and the removal did not
\* fail, the temporary directory of this migration no longer exists: if it
\* still does, cleanup has run (and failed to remove it).
C2_CleanupBeforeVerdict ==
    (FinalReceived /\ OwnDirExists) => CleanupHasRun

\* C3: a request with a missing or blank field, or a destination id without
\* "/", never invokes fetch_snapshot, repo_exists, create_repo or
\* upload_folder, and its final verdict is a failure.
C3_InvalidRequestInvokesNothing ==
    RequestInvalid =>
        /\ \A i \in CallIndices : calls[i].name \notin Collaborators
        /\ FinalReceived => IsFailureVerdict(last_yield) /\ ~results.success

C3_Witness == RequestInvalid /\ FinalReceived /\ bgPc = "done"

\* C4 as stated: a request that fails validation never has its background
\* task started.
C4_NoTaskStarted == RequestInvalid => bgPc = "idle"

\* C4 amended: a request that fails validation reaches its failure inside
\* the background task, which was started before validation; the task goes
\* from validation straight to its cleanup block, never enters the download
\* or the upload, makes no temporary directory and leaves success false.
C4_InvalidRequestSkipsTransfer ==
    RequestInvalid =>
        /\ bgPc \in {"idle", "validate", "finally", "cleanup", "cleanup_done",
                     "set_finished", "done"}
        /\ made_dir = 0 /\ fs = {} /\ temp_dir = None
        /\ ~results.success
        /\ results.finished => bgPc \notin {"idle", "validate"}

C4_Witness ==
    RequestInvalid /\ results.finished /\ bgPc = "finally" /\ mainPc = "final_yielded"

\* C5: when fetch_snapshot fails, repo_exists, create_repo and
\* upload_folder are never invoked, cleanup has run when the task is done
\* (the directory is gone or the warning was written), and the final
\* verdict is a failure carrying the error of fetch_snapshot.
C5_FetchFailureShortCircuits ==
    \A e \in FetchErrors :
        FetchFailedWith(e) =>
            /\ \A i \in CallIndices :
                   calls[i].name \notin {"repo_exists", "create_repo", "upload_folder"}
            /\ bgPc = "done" =>
                   /\ HasWritten(MsgCleaning)
                   /\ OwnDirExists => \E w \in RmtreeErrors : HasWritten(MsgCleanupWarning(w))
            /\ FinalReceived =>
                   /\ IsFailureVerdict(last_yield)
                   /\ Contains(e, VerdictPart(last_yield.text))

C5_Witness ==
    /\ \E e \in FetchErrors : FetchFailedWith(e)
    /\ FinalReceived /\ bgPc = "done" /\ ~OwnDirExists

\* C6: the final verdict is a success exactly when the request is valid,
\* fetch_snapshot succeeded and upload_folder succeeded; the success verdict
\* contains the (trimmed) destination id, every other verdict is a failure.
C6_SuccessIffAllStepsSucceed ==
    FinalReceived =>
        IF ~RequestInvalid /\ FetchSucceeded /\ UploadSucceeded
        THEN /\ IsSuccessVerdict(last_yield)
             /\ Contains(DestinationId, VerdictPart(last_yield.text))
        ELSE IsFailureVerdict(last_yield)

C6_Witness ==
    /\ IsSuccessVerdict(last_yield)
    /\ req.ms_repo_id # DestinationId
    /\ mainPc = "done"

\* C7: create_repo is invoked at most once, only after repo_exists returned
\* false (never after it returned true), and before upload_folder.
C7_CreateOnlyWhenAbsent ==
    /\ Cardinality({ i \in CallIndices : calls[i].name = "create_repo" }) <= 1
    /\ \A i \in CallIndices :
          calls[i].name = "create_repo" =>
              /\ \E j \in 1..(i - 1) : calls[j] = Call("repo_exists", "false", <<>>)
              /\ \A j \in CallIndices : calls[j] # Call("repo_exists", "true", <<>>)
              /\ \A k \in CallIndices : calls[k].name = "upload_folder" => i < k

C7_Witness ==
    \E i, k \in CallIndices :
        i < k /\ calls[i].name = "create_repo" /\ calls[k].name = "upload_folder"

\* The creation errors that say the repository already exists.
AlreadyExistsErrors ==
    { <<"r", "e", "p", "o", " ", "a", "l", "r", "e", "a", "d", "y", " ",
        "e", "x", "i", "s", "t", "s">>,
      <<"A", "l", "r", "e", "a", "d", "y", " ", "E", "x", "i", "s", "t", "s">> }

\* C8: after a create_repo failure saying the repository already exists,
\* upload_folder is the next collaborator invoked; after any other
\* create_repo failure no collaborator is invoked any more and the final
\* verdict is a failure carrying the creation error.
C8_CreationConflictTolerated ==
    \A i \in CallIndices :
        (calls[i].name = "create_repo" /\ calls[i].status = "error") =>
            IF calls[i].error \in AlreadyExistsErrors
            THEN /\ i = Len(calls) => bgPc = "upload_folder"
                 /\ i < Len(calls) => calls[i + 1].name = "upload_folder"
            ELSE /\ i = Len(calls)
                 /\ bgPc # "upload_folder"
                 /\ FinalReceived =>
                        /\ IsFailureVerdict(last_yield)
                        /\ Contains(calls[i].error, VerdictPart(last_yield.text))

C8_Witness ==
    /\ \E i \in CallIndices :
          /\ calls[i].name = "create_repo"
          /\ calls[i].error = <<"A", "l", "r", "e", "a", "d", "y", " ",
                                "E", "x", "i", "s", "t", "s">>
    /\ IsSuccessVerdict(last_yield)

\* C9: exactly one value is yielded after the completion flag was seen
\* set; it is the last value received, it is the joined buffer followed by
\* exactly one verdict, and no earlier value holds a verdict.
C9_OneFinalValue ==
    /\ final_yields <= 1
    /\ mainPc \in {"final_yielded", "done"} => final_yields = 1 /\ last_yield.final
    /\ last_yield.final =>
          /\ final_yields = 1
          /\ IsPrefix(Join(output_lines, <<"\n">>), last_yield.text)
          /\ MarkerIndices(last_yield.text) = {Len(Join(output_lines, <<"\n">>)) + 3}
    /\ (last_yield.any /\ ~last_yield.final) => MarkerIndices(last_yield.text) = {}

C9_Witness ==
    mainPc = "done" /\ final_yields = 1 /\ Len(output_lines) > 2

OnlyDrained(fragments) ==
    drained # <<>> /\ \A i \in 1..Len(drained) : drained[i] \in fragments

LastDrained == drained[Len(drained)]

\* The buffer is one of the initial buffers followed by these lines.
BufferGrewBy(lines) == \E b \in InitialBuffers : output_lines = b \o lines

\* C11 as stated: redraws of the form <label> N%|<bar>| separated by
\* carriage returns leave exactly one entry, the last redraw.
C11_BareRedrawsMerge ==
    OnlyDrained(BareRedrawsOfA) => BufferGrewBy(<<Strip(LastDrained)>>)

\* C11 amended: redraws of one bar that each hold a percent sign, a
\* vertical bar and a bracket and share a non-empty label, drained into a
\* buffer none of whose last 10 entries contains the label, leave exactly
\* one entry, the last redraw.
C11_BracketedRedrawsMerge ==
    OnlyDrained(RedrawsOfA) => BufferGrewBy(<<Strip(LastDrained)>>)

C11_Witness ==
    /\ OnlyDrained(RedrawsOfA)
    /\ Len(drained) = 3
    /\ drained[1] # drained[3]
    /\ output_lines = <<BarLine(<<"A">>, "2")>>

\* The step is one iteration of the while loop of update_output.
DrainStep == drained' # drained

\* C12: an update of one progress bar never overwrites the entry of a bar
\* with another label: whenever an entry holding a progress line is
\* changed, its new content has the same label.
C12_DistinctBarsIndependent ==
    [][DrainStep =>
          \A i \in 1..Len(output_lines) :
              (IsProgress(output_lines[i]) /\ output_lines'[i] # output_lines[i])
                  => ProgressLabel(output_lines'[i]) = ProgressLabel(output_lines[i])]_vars

\* Number of entries of a snapshot: its lines (no entry holds a newline).
SnapshotEntries(text) ==
    IF text = <<>> THEN 0
    ELSE Cardinality({ i \in 1..Len(text) : text[i] = "\n" }) + 1

\* The last n elements of s, all of s if it has fewer.
MostRecent(n, s) == IF Len(s) > n THEN SubSeq(s, Len(s) - n + 1, Len(s)) ELSE s

\* The lines of n chunks of PlainFragments.
PlainLinesFed(n) == [i \in 1..(2 * n) |-> IF i % 2 = 1 THEN <<"x">> ELSE <<"y">>]

\* C13: a snapshot handed to the observer holds at most RetentionCap
\* entries; when only plain lines were fed, the snapshot is the join of
\* the most recent RetentionCap of all lines, in the order they were fed.
C13_SnapshotWithinCap ==
    /\ last_yield.any => SnapshotEntries(last_yield.text) <= RetentionCap
    /\ (mainPc = "yielded" /\ OnlyDrained(PlainFragments)) =>
          \E b \in InitialBuffers :
              /\ output_lines = MostRecent(RetentionCap, b \o PlainLinesFed(Len(drained)))
              /\ last_yield.text = Join(output_lines, <<"\n">>)

C13_Witness ==
    /\ mainPc = "yielded"
    /\ OnlyDrained(PlainFragments)
    /\ Len(output_lines) = RetentionCap
    /\ output_lines[1] = <<"4">>
    /\ output_lines[RetentionCap] = <<"y">>
    /\ SnapshotEntries(last_yield.text) = RetentionCap

\* ------------------------------------------------------------------------
\* Properties of the stream redirection
\* ------------------------------------------------------------------------

\* The generator is between the redirection and its finally block.
Capturing ==
    mainPc \in {"start", "check", "poll", "yielded", "final_poll", "final_yielded"}

\* The generator was exhausted, closed, or left by an error.
Ended == mainPc \in {"done", "closed", "raised"}

\* C14: when the generator has ended, by exhaustion, by an error or by
\* being closed, sys.stdout and sys.stderr are the original streams; while
\* it captures, both are the tee.
C14_StreamsRestoredOnEveryExit ==
    /\ Ended => sys_stdout = "original" /\ sys_stderr = "original"
    /\ Capturing => sys_stdout = "tee" /\ sys_stderr = "tee"

C14_Witness ==
    /\ mainPc = "closed"
    /\ bgPc = "upload_folder"
    /\ last_yield.any
    /\ sys_stdout = "original" /\ sys_stderr = "original"

\* ------------------------------------------------------------------------
\* Properties of the removal of escape sequences
\* ------------------------------------------------------------------------

\* Some substring of s matches ANSI_ESCAPE.
HasControlSequence(s) ==
    \E i \in 1..Len(s) : AnsiMatchLen(SubSeq(s, i, Len(s))) > 0

\* C15: what ANSI_ESCAPE.sub returns for a captured chunk holds no escape
\* sequence, so substituting again changes nothing; a chunk without an
\* escape sequence is returned as it is.
C15_NormalizedHasNoControlSequence ==
    \A i \in 1..Len(drained) :
        LET msg == AnsiSub(drained[i])
        IN  /\ ~HasControlSequence(msg)
            /\ AnsiSub(msg) = msg
            /\ ~HasControlSequence(drained[i]) => msg = drained[i]

\* ------------------------------------------------------------------------
\* Properties of the backward scan
\* ------------------------------------------------------------------------

\* Indices of the last 10 entries of the buffer.
LastTen(lines) == { i \in 1..Len(lines) : Len(lines) - i < 10 }

\* C16: among the last 10 entries of the buffer no two progress entries
\* derive the same label.  Entries with an empty label are left out: they
\* are never merged (the edge-case policy of the reconciler).
C16_OneEntryPerLabelInWindow ==
    \A i, j \in LastTen(output_lines) :
        (/\ i # j
         /\ IsProgress(output_lines[i]) /\ IsProgress(output_lines[j])
         /\ ProgressLabel(output_lines[i]) # <<>>)
            => ProgressLabel(output_lines[i]) # ProgressLabel(output_lines[j])

\* C17: an entry the reconciler overwrites was itself a progress line (it
\* holds a percent sign, a vertical bar and a bracket): an entry appended
\* as a plain line is never replaced.
C17_OnlyProgressEntriesOverwritten ==
    [][DrainStep =>
          \A i \in 1..Len(output_lines) :
              output_lines'[i] # output_lines[i] => IsProgress(output_lines[i])]_vars

\* The chunks that are one progress line.
ProgressFragments == RedrawsOfA \cup RedrawsOfAB \cup UnlabelledRedraws

\* The entry is one the scan takes for the bar of this label.
ScanAccepts(label, entry) ==
    /\ label # <<>>
    /\ Contains(label, entry)
    /\ HasChar("%", entry) \/ HasChar("|", entry)

\* The effect of one progress line on the buffer: it replaces the most
\* recent of the last 10 entries the scan accepts and nothing else, or, if
\* there is none, it is appended.
ProgressLineEffect(before0, line0, after0) ==
    Eval2(before0, after0, LAMBDA before, after :
    Eval2(line0, ProgressLabel(line0), LAMBDA line, label :
    Eval({ i \in LastTen(before) : ScanAccepts(label, before[i]) }, LAMBDA hits :
        /\ IF hits = {}
           THEN after = Append(before, line)
           ELSE /\ Len(after) = Len(before)
                /\ \A i \in 1..Len(before) :
                      after[i] = IF i \in hits /\ \A j \in hits : j <= i
                                 THEN line ELSE before[i]
        /\ \A i \in 1..(Len(before) - 10) : after[i] = before[i])))

\* C18: a progress line overwrites in place the most recent matching entry
\* among the last 10 and changes nothing else; if none of the last 10
\* matches, or its label is empty, it is appended and no entry changes;
\* entries older than the last 10 are never overwritten.
C18_ProgressLineChangesOneEntry ==
    [][(DrainStep /\ Head(log_queue) \in ProgressFragments) =>
          ProgressLineEffect(output_lines, Strip(Head(log_queue)), output_lines')]_vars

C18_Witness ==
    /\ drained = <<BarLine(<<"A">>, "1") \o <<"\r">>>>
    /\ output_lines = Append(BarOutOfWindow, BarLine(<<"A">>, "1"))

\* ------------------------------------------------------------------------
\* Properties of the polling loop
\* ------------------------------------------------------------------------

\* C19: inside the polling loop a snapshot is yielded only if the buffer
\* changed since the last one: a snapshot yielded at line 363 differs from
\* the snapshot the observer received before it.
C19_ConsecutiveSnapshotsDiffer ==
    [][(mainPc = "poll" /\ mainPc' = "yielded" /\ last_yield.any)
          => last_yield'.text # last_yield.text]_vars

\* The step assigns sys.stdout or sys.stderr.
StreamsChange == sys_stdout' # sys_stdout \/ sys_stderr' # sys_stderr

\* C20: the redirection is installed before the background task starts
\* and is next touched, by the restoration, only after the task has
\* signalled completion and has stopped writing: the streams are never
\* assigned while the task can write to them.
C20_RedirectionStableWhileTaskRuns ==
    [][StreamsChange =>
          IF sys_stdout = "original"
          THEN bgPc = "idle"
          ELSE results.finished /\ bgPc = "done" /\ pending = <<>>]_vars

\* ------------------------------------------------------------------------
\* Properties of the tee and the capture channel
\* ------------------------------------------------------------------------

TextsOf(writes) == [i \in 1..Len(writes) |-> writes[i].text]

\* The non-empty writes made to a tee, in order.
TeeWrites == SelectSeq(written, LAMBDA w : w.target = "tee" /\ w.text # <<>>)

\* The non-empty writes, in order.
NonEmptyWrites == SelectSeq(written, LAMBDA w : w.text # <<>>)

\* C21: every non-empty write to a tee reached the original stream
\* unchanged and was put on the queue once; update_output takes the chunks
\* in the order they were put and takes none twice: the chunks drained
\* followed by the chunks queued are the writes made to the tee.
C21_TeeForwardsAndEnqueuesOnce ==
    /\ console = TextsOf(NonEmptyWrites)
    /\ drained \o log_queue = TextsOf(TeeWrites)

C21_Witness ==
    /\ Len(drained) > 2
    /\ log_queue # <<>>
    /\ \E i \in 1..Len(written) : written[i].target = "original"
    /\ Len(console) = Len(written)

\* ------------------------------------------------------------------------
\* Properties of the result and of the cleanup
\* ------------------------------------------------------------------------

\* C22: once the completion flag is set, success and message no longer
\* change and the flag stays set; the final value is the joined buffer
\* followed by the verdict of that result.
C22_ResultFixedOnceFinished ==
    [][/\ results.finished =>
             /\ results'.finished
             /\ results'.success = results.success
             /\ results'.message = results.message
       /\ last_yield'.final =>
             last_yield'.text = FinalStatus(Join(output_lines', <<"\n">>), results',
                                            req.repo_type, ms_repo_id')]_vars

C22_Witness ==
    /\ \E e \in FetchErrors : results.message = MsgDownloadFailed(e)
    /\ results.finished
    /\ bgPc = "done"
    /\ last_yield.final

\* cleanup found the directory and rmtree raised: the directory is still
\* there when cleanup returns.
RemovalFails ==
    /\ bgPc = "cleanup" /\ bgPc' # bgPc
    /\ temp_dir # None /\ temp_dir \in fs
    /\ fs' = fs

\* C23: a removal that fails changes neither success nor message and is not
\* raised out of cleanup; the task goes on to set the completion flag, and
\* ends with the outcome of the transfer although the directory remains.
C23_RemovalFailureIsHarmless ==
    [][/\ RemovalFails =>
             /\ results' = results
             /\ bgPc' = "cleanup_done"
       /\ bgPc' = "done" =>
             /\ results'.finished
             /\ results'.success <=> UploadSucceeded']_vars

C23_Witness ==
    /\ bgPc = "done"
    /\ OwnDirExists
    /\ results.success
    /\ results.finished
    /\ HasWritten(MsgCleanupComplete)

\* ------------------------------------------------------------------------
\* Migrations one after the other on the same MigrationTool
\* ------------------------------------------------------------------------

\* Directories mkdtemp may have made when another migration is started.
MaxTempDirs == 2

\* The interface calls migrate again on the instance it made once: the
\* arguments, the queue, the buffer, the results and the thread are new,
\* temp_dir and the file system are what the earlier migrations left.
NextMigration ==
    /\ mainPc = "done"
    /\ bgPc = "done"
    /\ made_dir < MaxTempDirs
    /\ req' \in Requests
    /\ hf_token' = req'.hf_token
    /\ ms_token' = req'.ms_token
    /\ hf_repo_id' = req'.hf_repo_id
    /\ ms_repo_id' = req'.ms_repo_id
    /\ log_queue' = <<>>
    /\ output_lines' = <<>>
    /\ new_data' = FALSE
    /\ results' = InitialResults
    /\ mainPc' = "redirect"
    /\ bgPc' = "idle"
    /\ pending' = <<>>
    /\ bg_local' = NoLocals
    /\ last_yield' = NoYield
    /\ final_yields' = 0
    /\ calls' = <<>>
    /\ written' = <<>>
    /\ drained' = <<>>
    /\ console' = <<>>
    /\ UNCHANGED <<dirVars, streamVars>>

RepeatSpec == Init /\ [][Next \/ NextMigration]_vars

\* C24 as stated: the cleanup of a migration that fails validation removes
\* no directory, whatever the earlier migrations on the instance left.
C24_InvalidRunRemovesNothing ==
    [][(RequestInvalid /\ bgPc = "cleanup" /\ bgPc' # bgPc) => fs' = fs]_vars

\* ------------------------------------------------------------------------
\* Properties of the split of the text into writes
\* ------------------------------------------------------------------------

\* The buffer update_output would hold had the chunks taken so far been one
\* chunk, starting from the buffer b.
BufferOfOneChunk(b) ==
    ApplyCap(ReconcileChunk([lines |-> b, new_data |-> FALSE],
                            Join(drained, <<>>)).lines)

\* C25 as stated: the buffer after the chunks taken so far is the buffer
\* the same text gives as a single chunk.
C25_SplitIntoChunksIrrelevant ==
    (mainPc = "yielded" /\ drained # <<>>) =>
        \E b \in InitialBuffers : output_lines = BufferOfOneChunk(b)

=============================================================================
